---- MODULE Spec2Model ----
(***************************************************************************)
(* Nebula-Chat: the chat membership and message-synchronisation core.      *)
(*                                                                         *)
(* The store is the Postgres schema of the migration (tables chats,        *)
(* chat_members, messages with their row-level policies); every statement  *)
(* is evaluated for the authenticated caller auth.uid().  The clients are  *)
(* the React components NewChat (createDM, createGroup), ChatScreen        *)
(* (loadChat, loadMessages, sendMessage, the realtime subscription) and    *)
(* ChatList (loadChats), plus any authenticated principal talking to the   *)
(* store's insert interface directly: the policies are the only            *)
(* authorisation boundary of the schema.                                   *)
(*                                                                         *)
(* Each specification schedules the handlers of one part of the program;   *)
(* loadChat, which the ChatScreen effect starts, is settled in SpecList and *)
(* SpecAnon.  Index gates the views on the session (SpecAnon, SpecBusy).   *)
(*                                                                         *)
(* Postgres semantics used by the policy operators below:                  *)
(*  - a table with row level security enabled and no policy for a command  *)
(*    denies that command: no UPDATE or DELETE on chat_members or          *)
(*    messages, no DELETE on chats;                                        *)
(*  - several permissive policies for one command are OR-ed;               *)
(*  - a sub-select inside a policy runs as the caller, so the rows it      *)
(*    sees are filtered by the SELECT policy of the table it reads;        *)
(*  - INSERT ... RETURNING (supabase-js .insert(..).select()) also checks  *)
(*    the table's SELECT policy on the new row and fails when it is false. *)
(***************************************************************************)
EXTENDS Integers, Sequences, FiniteSets, TLC

\* ------------------------------------------------------------------ bounds
MaxChats == 2
MaxMsgs == 2
MaxNav == 1

\* ------------------------------------------------------- principals, values
Users == {"u1", "u2", "u3"}
NoUser == "none"
ChatIds == 1..MaxChats
NoChat == 0
ChatTypes == {"dm", "group"}
\* chats.name is nullable: NoName is SQL NULL, "" the empty text
NoName == "(null)"
\* the names a group is stored with: none, the empty text, a text
GroupNames == {NoName, "", "Team"}
NoChannel == [chat |-> NoChat, sub |-> 0, joined |-> FALSE]

\* table public.profiles: handle_new_user() inserts one row per principal
DisplayName(u) == CASE u = "u1" -> "Ann" [] u = "u2" -> "Bob" [] OTHER -> "Cy"
Profile(u) == [id |-> u, display_name |-> DisplayName(u)]
\* the data of a .single() lookup that did not resolve to a row: null
NoProfile == [id |-> NoUser, display_name |-> ""]
\* useState<Chat | null>(null) of ChatScreen
NoChatData == [id |-> NoChat, type |-> "none", name |-> NoName, otherUser |-> NoProfile]
\* the data of the last-message lookup of a conversation without messages: null
NoMessage == [content |-> <<>>, created_at |-> 0]
\* no UPDATE or DELETE on messages was issued yet
NoReply == [cmd |-> "none", id |-> 0, by |-> NoUser, rows |-> 0]

\* message contents are character sequences; " " is the only blank character.
\* What is typed into the input or handed to the store: a blank text and a text
\* that trim() changes (the input starts, and is reset to, the empty text)
Drafts == {<<" ">>, <<" ", "a", " ">>}

VARIABLES
  authUser,       \* supabase.auth.getUser() of the browser session
  authLoading,    \* useAuth().loading: the session is still being restored
  route,          \* the router's location, as far as Index sets it
  chats,          \* table public.chats: set of rows
  chat_members,   \* table public.chat_members: set of rows
  messageLog,     \* table public.messages, in insert order
  joinedBy,       \* history: the caller of each accepted chat_members insert
  sentBy,         \* history: per message, its caller and whether the caller
                  \* held a membership row when the insert ran
  storeReply,     \* the store's reply to the last UPDATE or DELETE on messages
  \* NewChat component
  creatingChat, ncPc, ncOther, ncTodo, ncNewChat, ncNavigate, ncToast, ncExisting,
  \* ChatScreen component
  newMessage, sending, csToast, sendPc, sendReq, sendCalls,
  chatId, mounted, messages, loads, channel, feed, handlers, navCount, openedAt,
  chat, chatLoads, loading,
  \* NewChat component, group tab
  selectedUsers, groupName, grpPc, grpReq,
  \* ChatList component
  listChats, listLoading, listPc, listOut

sessionVars == <<authUser, authLoading, route>>
storeVars == <<chats, chat_members, messageLog, joinedBy, sentBy, storeReply>>
newChatVars == <<creatingChat, ncPc, ncOther, ncTodo, ncNewChat, ncNavigate, ncToast,
                 ncExisting>>
sendVars == <<newMessage, sending, csToast, sendPc, sendReq, sendCalls>>
syncVars == <<chatId, mounted, messages, loads, channel, feed, handlers, navCount,
              openedAt>>
headVars == <<chat, chatLoads, loading>>
groupVars == <<selectedUsers, groupName, grpPc, grpReq>>
chatListVars == <<listChats, listLoading, listPc, listOut>>
vars == <<sessionVars, storeVars, newChatVars, sendVars, syncVars, headVars, groupVars,
          chatListVars>>

\* ------------------------------------------------------------ pure helpers
RECURSIVE SetToSeq(_)
SetToSeq(S) ==
  IF S = {} THEN <<>>
  ELSE LET m == CHOOSE x \in S : \A y \in S : x <= y
       IN <<m>> \o SetToSeq(S \ {m})

RECURSIVE TrimLeft(_)
TrimLeft(s) == IF s # <<>> /\ Head(s) = " " THEN TrimLeft(Tail(s)) ELSE s

RECURSIVE TrimRight(_)
TrimRight(s) ==
  IF s # <<>> /\ s[Len(s)] = " " THEN TrimRight(SubSeq(s, 1, Len(s) - 1)) ELSE s

\* String.prototype.trim()
Trim(s) == TrimRight(TrimLeft(s))

\* ------------------------------------------------------------------- Index
\* what Index returns: the spinner while the session loads, null without a
\* user, else one of the chat views (NewChat, ChatScreen, ChatList)
IndexView(user, sessionLoading) ==
  IF sessionLoading THEN "spinner" ELSE IF user = NoUser THEN "none" ELSE "views"

\* (C23 mutant) an Index that renders the chat views without a user
Rendered_WithoutUser == ~authLoading

\* Index renders the chat views
Rendered == IndexView(authUser, authLoading) = "views"

\* useAuth() finished restoring the session; the effect of Index:
\* if (!loading && !user) navigate('/auth')
sessionLoaded ==
  /\ authLoading
  /\ authLoading' = FALSE
  /\ route' = IF authUser = NoUser THEN "/auth" ELSE route
  /\ UNCHANGED <<authUser, storeVars, newChatVars, sendVars, syncVars, headVars, groupVars,
                 chatListVars>>

\* handleSignOut of the list view: await signOut(); navigate('/auth').  The
\* calls the views started before go on
handleSignOut ==
  /\ Rendered
  /\ ~mounted
  /\ authUser' = NoUser
  /\ route' = "/auth"
  /\ UNCHANGED <<authLoading, storeVars, newChatVars, sendVars, syncVars, headVars,
                 groupVars, chatListVars>>

\* ------------------------------------------------------ row-level policies
\* "Users can view their own chat memberships"
MembersSelectPolicy(uid, row) == uid = row.user_id

MembersVisibleTo(uid) == {m \in chat_members : MembersSelectPolicy(uid, m)}

\* "Users can view chats they are members of"; its sub-select reads
\* chat_members as the caller
ChatsSelectPolicy(uid, row) ==
  \E m \in MembersVisibleTo(uid) : m.chat_id = row.id /\ m.user_id = uid

ChatsVisibleTo(uid) == {c \in chats : ChatsSelectPolicy(uid, c)}

\* "Users can create chats"
ChatsInsertPolicy(uid, row) == uid = row.created_by

\* "Users can insert chat memberships"
MembersInsertSelf(uid, row) == uid = row.user_id

\* "Chat creators can add members"; its sub-select reads chats as the caller
MembersInsertByCreator(uid, row) ==
  \E c \in ChatsVisibleTo(uid) : c.id = row.chat_id /\ c.created_by = uid

\* the two permissive INSERT policies of chat_members, OR-ed
MembersInsertPolicy(uid, row) ==
  MembersInsertSelf(uid, row) \/ MembersInsertByCreator(uid, row)

\* chat_members.chat_id REFERENCES chats(id), UNIQUE(chat_id, user_id)
MembersConstraints(row) ==
  /\ \E c \in chats : c.id = row.chat_id
  /\ row \notin chat_members

\* gen_random_uuid(): an id no row of chats has
NewChatId == CHOOSE i \in ChatIds : \A c \in chats : c.id # i
ChatIdsLeft == \E i \in ChatIds : \A c \in chats : c.id # i

MembersOf(c) == {m.user_id : m \in {x \in chat_members : x.chat_id = c}}

\* ------------------------------------------------- the store's insert interface
\* INSERT INTO chats, no RETURNING
StoreInsertChat(uid, type, creator, name) ==
  LET row == [id |-> NewChatId, type |-> type, name |-> name, created_by |-> creator] IN
  /\ ChatIdsLeft
  /\ ChatsInsertPolicy(uid, row)
  /\ chats' = chats \cup {row}
  /\ UNCHANGED <<sessionVars, storeReply, groupVars, headVars, chatListVars,
                 chat_members, messageLog, joinedBy, sentBy, newChatVars,
                 sendVars, syncVars>>

\* INSERT INTO chat_members, one row
StoreInsertMember(uid, c, p) ==
  LET row == [chat_id |-> c, user_id |-> p] IN
  /\ MembersConstraints(row)
  /\ MembersInsertPolicy(uid, row)
  /\ chat_members' = chat_members \cup {row}
  /\ joinedBy' = joinedBy \cup {[chat_id |-> c, user_id |-> p, by |-> uid]}
  /\ UNCHANGED <<sessionVars, storeReply, groupVars, headVars, chatListVars,
                 chats, messageLog, sentBy, newChatVars, sendVars, syncVars>>

\* ------------------------------------------------------------ NewChat.createDM
\* setCreatingChat(true); getUser()
createDM_begin(otherUser) ==
  /\ Rendered
  /\ ncPc \in {"idle", "done"}
  /\ otherUser # authUser
  /\ creatingChat' = TRUE
  /\ ncOther' = otherUser
  /\ ncNavigate' = NoChat
  /\ ncToast' = "none"
  /\ ncTodo' = <<>>
  /\ ncNewChat' = NoChat
  /\ ncExisting' = {}
  /\ ncPc' = "existing"
  /\ UNCHANGED <<sessionVars, groupVars, headVars, chatListVars,
                 storeVars, sendVars, syncVars>>

\* the caller's membership rows inner-joined with chats, as the caller sees
\* them; the loop looks only at the rows whose chat is of type 'dm'
ExistingDMs(uid) ==
  {m.chat_id : m \in {x \in MembersVisibleTo(uid) :
      /\ x.user_id = uid
      /\ \E c \in ChatsVisibleTo(uid) : c.id = x.chat_id /\ c.type = "dm"}}

\* the Direct conversations whose member set is exactly {a, b}
DirectOf(a, b) == {c.id : c \in {x \in chats : x.type = "dm" /\ MembersOf(x.id) = {a, b}}}

\* getUser() resolved: if (!user) return (finally: setCreatingChat(false)),
\* else the existingChats query
createDM_existing ==
  /\ ncPc = "existing"
  /\ IF authUser = NoUser
     THEN /\ ncPc' = "done"
          /\ creatingChat' = FALSE
          /\ UNCHANGED <<ncTodo, ncExisting>>
     ELSE /\ ncTodo' = SetToSeq(ExistingDMs(authUser))
          /\ ncExisting' = DirectOf(authUser, ncOther)
          /\ ncPc' = IF ExistingDMs(authUser) = {} THEN "create" ELSE "scan"
          /\ UNCHANGED creatingChat
  /\ UNCHANGED <<sessionVars, groupVars, headVars, chatListVars, storeVars, ncOther,
                 ncNewChat, ncNavigate, ncToast, sendVars, syncVars>>

\* select user_id from chat_members where chat_id = c and user_id <> uid
OtherMembers(uid, c) ==
  {m.user_id : m \in {x \in MembersVisibleTo(uid) : x.chat_id = c /\ x.user_id # uid}}

\* one round of the for loop: the otherMembers query and its test
createDM_scan ==
  /\ ncPc = "scan"
  /\ ncTodo # <<>>
  /\ IF OtherMembers(authUser, Head(ncTodo)) = {ncOther}
     THEN \* navigate(`/chat/${member.chat_id}`); return; finally
          /\ ncNavigate' = Head(ncTodo)
          /\ ncPc' = "done"
          /\ creatingChat' = FALSE
          /\ ncTodo' = <<>>
     ELSE /\ ncTodo' = Tail(ncTodo)
          /\ ncPc' = IF Tail(ncTodo) = <<>> THEN "create" ELSE "scan"
          /\ UNCHANGED <<ncNavigate, creatingChat>>
  /\ UNCHANGED <<sessionVars, groupVars, headVars, chatListVars,
                 storeVars, ncOther, ncNewChat, ncToast, ncExisting, sendVars,
                 syncVars>>

\* insert({type: 'dm', created_by}).select().single(): INSERT ... RETURNING
InsertChatReturningOk(uid, row) ==
  ChatsInsertPolicy(uid, row) /\ ChatsSelectPolicy(uid, row)

createDM_insertChat ==
  /\ ncPc = "create"
  /\ ChatIdsLeft
  /\ LET row == [id |-> NewChatId, type |-> "dm", name |-> NoName,
                 created_by |-> authUser] IN
     IF InsertChatReturningOk(authUser, row)
     THEN /\ chats' = chats \cup {row}
          /\ ncNewChat' = row.id
          /\ ncPc' = "members"
          /\ UNCHANGED <<ncToast, creatingChat>>
     ELSE \* throw chatError; catch: toast; finally: setCreatingChat(false)
          /\ ncToast' = "error"
          /\ ncPc' = "done"
          /\ creatingChat' = FALSE
          /\ UNCHANGED <<chats, ncNewChat>>
  /\ UNCHANGED <<sessionVars, storeReply, groupVars, headVars, chatListVars,
                 chat_members, messageLog, joinedBy, sentBy, ncOther, ncTodo,
                 ncNavigate, ncExisting, sendVars, syncVars>>

\* insert([{chat_id, user_id: user.id}, {chat_id, user_id: otherUser.id}]): one
\* statement, every row checked against the policies as the statement finds
\* the tables; then navigate.  createDM_insertChat never leaves ncPc at
\* "members" (MembersStepUnreachable), so this step is no disjunct of Next.
createDM_insertMembers ==
  /\ ncPc = "members"
  /\ LET rows == {[chat_id |-> ncNewChat, user_id |-> authUser],
                  [chat_id |-> ncNewChat, user_id |-> ncOther]} IN
     IF \A r \in rows : MembersConstraints(r) /\ MembersInsertPolicy(authUser, r)
     THEN /\ chat_members' = chat_members \cup rows
          /\ joinedBy' = joinedBy \cup
               {[chat_id |-> r.chat_id, user_id |-> r.user_id, by |-> authUser] : r \in rows}
          /\ ncNavigate' = ncNewChat
          /\ UNCHANGED ncToast
     ELSE /\ ncToast' = "error"
          /\ UNCHANGED <<chat_members, joinedBy, ncNavigate>>
  /\ ncPc' = "done"
  /\ creatingChat' = FALSE
  /\ UNCHANGED <<sessionVars, storeReply, groupVars, headVars, chatListVars,
                 chats, messageLog, sentBy, ncOther, ncTodo, ncNewChat,
                 ncExisting, sendVars, syncVars>>

\* --------------------------------------------------------- NewChat.createGroup
\* searchUsers: the profiles the search lists, .neq('id', user.id)
SearchUsers(uid) == Users \ {uid}

\* prev.find(u => u.id === user.id) ? prev.filter(u => u.id !== user.id)
\*                                  : [...prev, user]
Toggle(prev, user) ==
  IF \E i \in 1..Len(prev) : prev[i] = user
  THEN SelectSeq(prev, LAMBDA u : u # user)
  ELSE Append(prev, user)

\* the checkbox of a listed user
toggleUserSelection(user) ==
  /\ Rendered
  /\ user \in SearchUsers(authUser)
  /\ selectedUsers' = Toggle(selectedUsers, user)
  /\ UNCHANGED <<sessionVars, storeVars, newChatVars, sendVars, syncVars, headVars,
                 chatListVars, groupName, grpPc, grpReq>>

\* onChange of the group name input
setGroupName(n) ==
  /\ Rendered
  /\ groupName # n
  /\ groupName' = n
  /\ UNCHANGED <<sessionVars, storeVars, newChatVars, sendVars, syncVars, headVars,
                 chatListVars, selectedUsers, grpPc, grpReq>>

\* groupName || 'New Group'
GroupNameFor(n) == IF n = "" THEN "New Group" ELSE n

\* (C19 mutant) a guard that lets every selection pass
NoUserSelected_Never(sel) == FALSE

\* selectedUsers.length === 0
NoUserSelected(sel) == Len(sel) = 0

\* createGroup up to its first await: the guard with its toast and return,
\* else setCreatingChat(true) and getUser(); the rest of the call works on
\* the selectedUsers and groupName of the render that called it
createGroup ==
  /\ Rendered
  /\ IF NoUserSelected(selectedUsers)
     THEN /\ ncToast' = "select"
          /\ UNCHANGED <<creatingChat, grpPc, grpReq, ncNavigate, ncNewChat>>
     ELSE /\ grpPc \in {"idle", "done"}
          /\ creatingChat' = TRUE
          /\ grpReq' = [name |-> GroupNameFor(groupName), members |-> selectedUsers]
          /\ ncToast' = "none"
          /\ ncNavigate' = NoChat
          /\ ncNewChat' = NoChat
          /\ grpPc' = "create"
  /\ UNCHANGED <<sessionVars, storeVars, ncPc, ncOther, ncTodo, ncExisting, sendVars, syncVars,
                 headVars, chatListVars, selectedUsers, groupName>>

\* insert({type: 'group', name, created_by}).select().single(): INSERT ... RETURNING
createGroup_insertChat ==
  /\ grpPc = "create"
  /\ ChatIdsLeft
  /\ LET row == [id |-> NewChatId, type |-> "group", name |-> grpReq.name,
                 created_by |-> authUser] IN
     IF authUser = NoUser
     THEN \* if (!user) return; finally: setCreatingChat(false)
          /\ grpPc' = "done"
          /\ creatingChat' = FALSE
          /\ UNCHANGED <<chats, ncNewChat, ncToast>>
     ELSE IF InsertChatReturningOk(authUser, row)
     THEN /\ chats' = chats \cup {row}
          /\ ncNewChat' = row.id
          /\ grpPc' = "members"
          /\ UNCHANGED <<ncToast, creatingChat>>
     ELSE \* throw chatError; catch: toast; finally: setCreatingChat(false)
          /\ ncToast' = "error"
          /\ grpPc' = "done"
          /\ creatingChat' = FALSE
          /\ UNCHANGED <<chats, ncNewChat>>
  /\ UNCHANGED <<sessionVars, storeReply, chat_members, messageLog, joinedBy, sentBy,
                 ncPc, ncOther, ncTodo, ncNavigate, ncExisting, sendVars, syncVars,
                 headVars, chatListVars,
                 selectedUsers, groupName, grpReq>>

\* the rows of insert(members): the caller and every selected user
GroupMemberRows(c, uid, sel) ==
  {[chat_id |-> c, user_id |-> uid]} \cup {[chat_id |-> c, user_id |-> sel[i]] : i \in 1..Len(sel)}

\* insert(members): one statement, every row checked against the policies as
\* the statement finds the tables; then navigate.  createGroup_insertChat
\* never leaves grpPc at "members" (GroupMembersStepUnreachable), so this
\* step is no disjunct of a next-state relation.
createGroup_insertMembers ==
  /\ grpPc = "members"
  /\ LET rows == GroupMemberRows(ncNewChat, authUser, grpReq.members) IN
     IF \A r \in rows : MembersConstraints(r) /\ MembersInsertPolicy(authUser, r)
     THEN /\ chat_members' = chat_members \cup rows
          /\ joinedBy' = joinedBy \cup
               {[chat_id |-> r.chat_id, user_id |-> r.user_id, by |-> authUser] : r \in rows}
          /\ ncNavigate' = ncNewChat
          /\ UNCHANGED ncToast
     ELSE /\ ncToast' = "error"
          /\ UNCHANGED <<chat_members, joinedBy, ncNavigate>>
  /\ grpPc' = "done"
  /\ creatingChat' = FALSE
  /\ UNCHANGED <<sessionVars, storeReply, chats, messageLog, sentBy, ncPc, ncOther,
                 ncTodo, ncNewChat, ncExisting, sendVars, syncVars, headVars,
                 chatListVars, selectedUsers,
                 groupName, grpReq>>

\* ------------------------------------------------------- messages policies
\* (C4 mutant) a select policy that forgets the membership test
MessagesSelectPolicy_Open(uid, row) == TRUE

\* "Users can view messages in their chats"; its sub-select reads
\* chat_members as the caller
MessagesSelectPolicy(uid, row) ==
  \E m \in MembersVisibleTo(uid) : m.chat_id = row.chat_id /\ m.user_id = uid

\* (C6 mutant) an insert policy that checks the sender only
MessagesInsertPolicy_SenderOnly(uid, row) == uid = row.sender_id

\* "Users can insert messages in their chats"
MessagesInsertPolicy(uid, row) ==
  /\ uid = row.sender_id
  /\ \E m \in MembersVisibleTo(uid) : m.chat_id = row.chat_id /\ m.user_id = uid

\* messages.chat_id REFERENCES chats(id); content TEXT NOT NULL is the only
\* constraint on content, and every character sequence satisfies it
MessagesConstraints(row) == \E c \in chats : c.id = row.chat_id

SeqToSet(q) == {q[i] : i \in 1..Len(q)}

RECURSIVE FilterSeq(_, _, _)
FilterSeq(q, uid, c) ==
  IF q = <<>> THEN <<>>
  ELSE IF Head(q).chat_id = c /\ MessagesSelectPolicy(uid, Head(q))
       THEN <<Head(q)>> \o FilterSeq(Tail(q), uid, c)
       ELSE FilterSeq(Tail(q), uid, c)

\* ORDER BY created_at: row r put into the ordered sequence q
RECURSIVE InsertOrdered(_, _, _)
InsertOrdered(r, q, ascending) ==
  IF q = <<>> THEN <<r>>
  ELSE IF (ascending /\ r.created_at < Head(q).created_at)
          \/ (~ascending /\ r.created_at > Head(q).created_at)
       THEN <<r>> \o q
       ELSE <<Head(q)>> \o InsertOrdered(r, Tail(q), ascending)

\* .order('created_at', { ascending }); rows of equal created_at stay in the
\* order in which the scan found them
RECURSIVE OrderBy(_, _)
OrderBy(q, ascending) ==
  IF q = <<>> THEN <<>>
  ELSE InsertOrdered(q[Len(q)], OrderBy(SubSeq(q, 1, Len(q) - 1), ascending), ascending)

\* (C12 mutant) the history taken newest first, the direction of the
\* last-message query of ChatList
History_Descending(uid, c) == OrderBy(FilterSeq(messageLog, uid, c), FALSE)

\* select * from messages where chat_id = c order by created_at asc, as uid
History(uid, c) == OrderBy(FilterSeq(messageLog, uid, c), TRUE)

\* { ...msg, sender }: a message with the data of its sender lookup
Enriched(msg, sender) ==
  [id |-> msg.id, chat_id |-> msg.chat_id, sender_id |-> msg.sender_id,
   content |-> msg.content, created_at |-> msg.created_at, sender |-> sender]

\* the data of profiles.select('*').eq('id', msg.sender_id).single()
SenderOf(msg, resolved) == IF resolved THEN Profile(msg.sender_id) ELSE NoProfile

RECURSIVE DropUnresolved(_, _, _)
DropUnresolved(rows, found, i) ==
  IF i > Len(rows) THEN <<>>
  ELSE (IF i \in found THEN <<Enriched(rows[i], Profile(rows[i].sender_id))>> ELSE <<>>)
       \o DropUnresolved(rows, found, i + 1)

\* (C17 mutant) an enrichment that keeps only the messages whose lookup resolved
EnrichAll_DropUnresolved(rows, found) == DropUnresolved(rows, found, 1)

\* Promise.all(rows.map(async msg => ({ ...msg, sender }))): one entry per
\* row, at the row's position; found holds the positions whose lookup resolved
EnrichAll(rows, found) ==
  [i \in 1..Len(rows) |-> Enriched(rows[i], SenderOf(rows[i], i \in found))]

\* DEFAULT NOW() of messages.created_at: the store's clock, which advances
\* with every insert
Now == Len(messageLog) + 1

\* realtime postgres_changes: an INSERT reaches the joined channel whose
\* filter chat_id=eq.<chat> matches, when the subscriber may select the row
Publish(row) ==
  IF /\ channel.chat # NoChat
     /\ channel.joined
     /\ channel.chat = row.chat_id
     /\ MessagesSelectPolicy(authUser, row)
  THEN Append(feed, [msg |-> row, sub |-> channel.sub])
  ELSE feed

\* INSERT INTO messages, one row; id is assigned by the store, created_at is
\* the column default Now or the value at the insert supplies
StoreInsertMessage(uid, c, sender, content, at) ==
  LET row == [id |-> Len(messageLog) + 1, chat_id |-> c, sender_id |-> sender,
              content |-> content, created_at |-> at] IN
  /\ Len(messageLog) < MaxMsgs
  /\ MessagesConstraints(row)
  /\ MessagesInsertPolicy(uid, row)
  /\ messageLog' = Append(messageLog, row)
  /\ sentBy' = Append(sentBy, [by |-> uid,
                               member |-> [chat_id |-> c, user_id |-> uid] \in chat_members])
  /\ feed' = Publish(row)
  /\ UNCHANGED <<sessionVars, storeReply, groupVars, headVars, chatListVars,
                 chats, chat_members, joinedBy, newChatVars, sendVars, chatId,
                 mounted, messages, loads, channel, handlers, navCount, openedAt>>

\* (C22 mutant) a delete policy for the sender of the message
MessagesDeletePolicy_Sender(uid, row) == uid = row.sender_id

\* row level security is enabled on messages and the migration creates no
\* policy FOR UPDATE and none FOR DELETE: no row passes for any caller
MessagesUpdatePolicy(uid, row) == FALSE
MessagesDeletePolicy(uid, row) == FALSE

RemoveAt(q, k) == SubSeq(q, 1, k - 1) \o SubSeq(q, k + 1, Len(q))

\* UPDATE messages SET content = ... WHERE id = <id of row k>, as uid: the
\* rows the policy lets through are changed, and the reply counts them
StoreUpdateMessage(uid, k, content) ==
  /\ k \in 1..Len(messageLog)
  /\ IF MessagesUpdatePolicy(uid, messageLog[k])
     THEN /\ messageLog' = [messageLog EXCEPT ![k].content = content]
          /\ storeReply' = [cmd |-> "update", id |-> messageLog[k].id, by |-> uid, rows |-> 1]
     ELSE /\ storeReply' = [cmd |-> "update", id |-> messageLog[k].id, by |-> uid, rows |-> 0]
          /\ UNCHANGED messageLog
  /\ UNCHANGED <<sessionVars, chats, chat_members, joinedBy, sentBy, newChatVars, sendVars,
                 syncVars, headVars, groupVars, chatListVars>>

\* DELETE FROM messages WHERE id = <id of row k>, as uid
StoreDeleteMessage(uid, k) ==
  /\ k \in 1..Len(messageLog)
  /\ IF MessagesDeletePolicy(uid, messageLog[k])
     THEN /\ messageLog' = RemoveAt(messageLog, k)
          /\ sentBy' = RemoveAt(sentBy, k)
          /\ storeReply' = [cmd |-> "delete", id |-> messageLog[k].id, by |-> uid, rows |-> 1]
     ELSE /\ storeReply' = [cmd |-> "delete", id |-> messageLog[k].id, by |-> uid, rows |-> 0]
          /\ UNCHANGED <<messageLog, sentBy>>
  /\ UNCHANGED <<sessionVars, chats, chat_members, joinedBy, newChatVars, sendVars, syncVars,
                 headVars, groupVars, chatListVars>>

\* ------------------------------------------------------ ChatScreen.sendMessage
\* onChange of the input, which is disabled while sending
setNewMessage(d) ==
  /\ mounted
  /\ ~sending
  /\ newMessage # d
  /\ newMessage' = d
  /\ UNCHANGED <<sessionVars, groupVars, headVars, chatListVars,
                 storeVars, newChatVars, sending, csToast, sendPc, sendReq, sendCalls,
                 syncVars>>

\* (C27 mutant) a submit that does not test sending
sendMessage_submit_NoBusyCheck ==
  /\ mounted
  /\ Trim(newMessage) # <<>>
  /\ sending' = TRUE
  /\ csToast' = "none"
  /\ sendReq' = [chat_id |-> chatId, content |-> Trim(newMessage)]
  /\ sendPc' = "insert"
  /\ sendCalls' = sendCalls + 1
  /\ UNCHANGED <<sessionVars, groupVars, headVars, chatListVars,
                 storeVars, newChatVars, newMessage, syncVars>>

\* if (!newMessage.trim() || sending) return; setSending(true); getUser().
\* The handler of the next submit event is the one of the render that
\* follows setSending(true), so it reads the flag as this call set it.
sendMessage_submit ==
  /\ mounted
  /\ Trim(newMessage) # <<>>
  /\ ~sending
  /\ sending' = TRUE
  /\ csToast' = "none"
  /\ sendReq' = [chat_id |-> chatId, content |-> Trim(newMessage)]
  /\ sendPc' = "insert"
  /\ sendCalls' = sendCalls + 1
  /\ UNCHANGED <<sessionVars, groupVars, headVars, chatListVars,
                 storeVars, newChatVars, newMessage, syncVars>>

\* the insert as the store runs it for the caller
sendMessage_insert ==
  /\ sendPc = "insert"
  /\ LET row == [id |-> Len(messageLog) + 1, chat_id |-> sendReq.chat_id,
                 sender_id |-> authUser, content |-> sendReq.content,
                 created_at |-> Now] IN
     IF authUser = NoUser
     THEN \* if (!user) return
          /\ sendPc' = "nouser"
          /\ UNCHANGED <<messageLog, sentBy, feed>>
     ELSE IF MessagesConstraints(row) /\ MessagesInsertPolicy(authUser, row)
     THEN /\ Len(messageLog) < MaxMsgs
          /\ messageLog' = Append(messageLog, row)
          /\ sentBy' = Append(sentBy,
               [by |-> authUser,
                member |-> [chat_id |-> row.chat_id, user_id |-> authUser] \in chat_members])
          /\ feed' = Publish(row)
          /\ sendPc' = "ok"
     ELSE /\ sendPc' = "error"
          /\ UNCHANGED <<messageLog, sentBy, feed>>
  /\ UNCHANGED <<sessionVars, storeReply, groupVars, headVars, chatListVars,
                 chats, chat_members, joinedBy, newChatVars, newMessage, sending,
                 csToast, sendReq, sendCalls, chatId, mounted, messages, loads, channel,
                 handlers,
                 navCount, openedAt>>

\* (C26 mutant) a sendMessage whose return without a user skips
\* setSending(false)
sendMessage_finish_BusyOnReturn ==
  /\ sendPc \in {"ok", "error", "nouser"}
  /\ CASE sendPc = "ok" -> newMessage' = <<>> /\ UNCHANGED csToast
       [] sendPc = "error" -> csToast' = "error" /\ UNCHANGED newMessage
       [] OTHER -> UNCHANGED <<newMessage, csToast>>
  /\ sending' = (sendPc = "nouser")
  /\ sendPc' = "idle"
  /\ sendCalls' = sendCalls - 1
  /\ UNCHANGED <<sessionVars, groupVars, headVars, chatListVars,
                 storeVars, newChatVars, sendReq, syncVars>>

\* (C28 mutant) a sendMessage that clears the draft on every exit
sendMessage_finish_AlwaysClear ==
  /\ sendPc \in {"ok", "error", "nouser"}
  /\ newMessage' = <<>>
  /\ csToast' = IF sendPc = "error" THEN "error" ELSE csToast
  /\ sending' = FALSE
  /\ sendPc' = "idle"
  /\ sendCalls' = sendCalls - 1
  /\ UNCHANGED <<sessionVars, groupVars, headVars, chatListVars,
                 storeVars, newChatVars, sendReq, syncVars>>

\* if (error) throw error; setNewMessage(''); catch: toast; finally:
\* setSending(false), which also ends the call that returned without a user
sendMessage_finish ==
  /\ sendPc \in {"ok", "error", "nouser"}
  /\ CASE sendPc = "ok" -> newMessage' = <<>> /\ UNCHANGED csToast
       [] sendPc = "error" -> csToast' = "error" /\ UNCHANGED newMessage
       [] OTHER -> UNCHANGED <<newMessage, csToast>>
  /\ sending' = FALSE
  /\ sendPc' = "idle"
  /\ sendCalls' = sendCalls - 1
  /\ UNCHANGED <<sessionVars, groupVars, headVars, chatListVars,
                 storeVars, newChatVars, sendReq, syncVars>>

\* ------------------------------------------- ChatScreen effect: load and sync
\* the effect of [chatId]: loadChat() and loadMessages() are started, the
\* channel is created and its join is sent
RunEffect(c, n) ==
  /\ loads' = loads \cup {[chat |-> c, sub |-> n, stage |-> "query", rows |-> <<>>,
                            member |-> FALSE]}
  /\ channel' = [chat |-> c, sub |-> n, joined |-> FALSE]
  /\ chatLoads' = chatLoads \cup {[chat |-> c, sub |-> n]}

\* first render of ChatScreen for the route /chat/<c>
mount(c) ==
  /\ Rendered
  /\ ~mounted
  /\ navCount = 0
  /\ chatId = NoChat
  /\ mounted' = TRUE
  /\ chatId' = c
  /\ messages' = <<>>
  /\ openedAt' = Len(messageLog)
  /\ RunEffect(c, 0)
  /\ UNCHANGED <<sessionVars, groupVars, chat, loading, chatListVars,
                 storeVars, newChatVars, sendVars, feed, handlers, navCount>>

\* the join of .subscribe() takes effect at the realtime server
subscribed ==
  /\ channel.chat # NoChat
  /\ ~channel.joined
  /\ channel' = [channel EXCEPT !.joined = TRUE]
  /\ UNCHANGED <<sessionVars, groupVars, headVars, chatListVars,
                 storeVars, newChatVars, sendVars, chatId, mounted, messages,
                 loads, feed, handlers, navCount, openedAt>>

\* loadMessages: the select runs at the store (member is history: whether
\* the caller held a membership row of the chat when it ran)
loadMessages_query(l) ==
  /\ l \in loads
  /\ l.stage = "query"
  /\ loads' = (loads \ {l}) \cup
       {[l EXCEPT !.stage = "enrich", !.rows = History(authUser, l.chat),
                  !.member = [chat_id |-> l.chat, user_id |-> authUser] \in chat_members]}
  /\ UNCHANGED <<sessionVars, groupVars, headVars, chatListVars,
                 storeVars, newChatVars, sendVars, chatId, mounted, messages,
                 channel, feed, handlers, navCount, openedAt>>

\* loadMessages: Promise.all of the sender lookups settled (found: the
\* positions whose lookup resolved to a profile); setMessages
loadMessages_apply(l, found) ==
  /\ l \in loads
  /\ l.stage = "enrich"
  /\ found \subseteq 1..Len(l.rows)
  /\ loads' = loads \ {l}
  /\ messages' = IF mounted THEN EnrichAll(l.rows, found) ELSE messages
  /\ UNCHANGED <<sessionVars, groupVars, headVars, chatListVars,
                 storeVars, newChatVars, sendVars, chatId, mounted, channel,
                 feed, handlers, navCount, openedAt>>

\* the channel's INSERT callback is called with the next payload and starts
\* the sender lookup
handler_start ==
  /\ feed # <<>>
  /\ handlers' = handlers \cup {Head(feed)}
  /\ feed' = Tail(feed)
  /\ UNCHANGED <<sessionVars, groupVars, headVars, chatListVars,
                 storeVars, newChatVars, sendVars, chatId, mounted, messages,
                 loads, channel, navCount, openedAt>>

\* the sender lookup settled: setMessages(prev => [...prev, {...newMsg, sender}])
handler_finish(h, resolved) ==
  /\ h \in handlers
  /\ handlers' = handlers \ {h}
  /\ messages' = IF mounted
                 THEN Append(messages, Enriched(h.msg, SenderOf(h.msg, resolved)))
                 ELSE messages
  /\ UNCHANGED <<sessionVars, groupVars, headVars, chatListVars,
                 storeVars, newChatVars, sendVars, chatId, mounted, loads,
                 channel, feed, navCount, openedAt>>

\* select user_id, profiles(...) from chat_members where chat_id = c and
\* user_id <> uid, .single(): the profile of the one row the caller sees, or
\* null when the rows the caller sees are not exactly one
OtherUser(uid, c) ==
  IF Cardinality(OtherMembers(uid, c)) = 1
  THEN Profile(CHOOSE u \in OtherMembers(uid, c) : TRUE)
  ELSE NoProfile

\* { ...chatData, otherUser }
ChatData(row, uid) ==
  [id |-> row.id, type |-> row.type, name |-> row.name,
   otherUser |-> IF row.type = "dm" THEN OtherUser(uid, row.id) ELSE NoProfile]

\* loadChat: getUser(); chats.select('*').eq('id', chatId).single() as the caller, the
\* otherMember lookup of a dm, setChat; a chat the caller may not select
\* throws: toast, navigate('/') (the view is left and its cleanup runs);
\* finally setLoading(false)
loadChat_finish(l) ==
  /\ l \in chatLoads
  /\ chatLoads' = chatLoads \ {l}
  /\ IF authUser = NoUser
     THEN \* if (!user) return
          UNCHANGED <<chat, csToast, mounted, channel, feed>>
     ELSE IF \E row \in ChatsVisibleTo(authUser) : row.id = l.chat
     THEN /\ chat' = IF mounted
                     THEN ChatData(CHOOSE row \in ChatsVisibleTo(authUser) : row.id = l.chat,
                                   authUser)
                     ELSE chat
          /\ UNCHANGED <<csToast, mounted, channel, feed>>
     ELSE /\ csToast' = "load"
          /\ mounted' = FALSE
          /\ channel' = NoChannel
          /\ feed' = <<>>
          /\ UNCHANGED chat
  /\ loading' = IF mounted THEN FALSE ELSE loading
  /\ UNCHANGED <<sessionVars, groupVars, chatListVars, storeVars, newChatVars, newMessage,
                 sending, sendPc, sendReq, sendCalls, chatId, messages, loads, handlers,
                 navCount,
                 openedAt>>

\* ChatScreen.getChatName
ChatScreen_getChatName ==
  IF chat = NoChatData THEN ""
  ELSE IF chat.type = "group"
       THEN (IF chat.name \in {NoName, ""} THEN "Unnamed Group" ELSE chat.name)
       ELSE (IF chat.otherUser.display_name = "" THEN "Unknown User"
             ELSE chat.otherUser.display_name)

\* the route parameter changes under the mounted view: the cleanup of the
\* old effect runs (removeChannel), then the effect runs for the new chatId
changeChat(c) ==
  /\ mounted
  /\ c # chatId
  /\ navCount < MaxNav
  /\ navCount' = navCount + 1
  /\ chatId' = c
  /\ feed' = <<>>
  /\ openedAt' = Len(messageLog)
  /\ RunEffect(c, navCount + 1)
  /\ UNCHANGED <<sessionVars, groupVars, chat, loading, chatListVars,
                 storeVars, newChatVars, sendVars, mounted, messages, handlers>>

\* the view is left: the cleanup runs (removeChannel) and the state is gone
unmount ==
  /\ mounted
  /\ mounted' = FALSE
  /\ channel' = NoChannel
  /\ feed' = <<>>
  /\ UNCHANGED <<sessionVars, groupVars, headVars, chatListVars,
                 storeVars, newChatVars, sendVars, chatId, messages, loads,
                 handlers, navCount, openedAt>>

\* ----------------------------------------------------------- ChatList.loadChats
\* useEffect(() => loadChats(), []): the list is rendered; getUser()
loadChats_begin ==
  /\ Rendered
  /\ listPc = "idle"
  /\ listPc' = "members"
  /\ UNCHANGED <<sessionVars, storeVars, newChatVars, sendVars, syncVars, headVars, groupVars,
                 listChats, listLoading, listOut>>

\* chat_members.select('chat_id, chats(...)').eq('user_id', uid) as the caller:
\* the chats of the caller's membership rows (a member may select the chat
\* of each of its rows, so the embedded chats is never null)
MemberChats(uid) ==
  {c \in ChatsVisibleTo(uid) :
     \E m \in MembersVisibleTo(uid) : m.user_id = uid /\ m.chat_id = c.id}

\* the sequences that enumerate the set S, each element once
Enumerations(S) ==
  {q \in [1..Cardinality(S) -> S] : \A i, j \in 1..Cardinality(S) : i # j => q[i] # q[j]}

\* what the map callback holds of a conversation before its lookups
Pending(c) ==
  [id |-> c.id, type |-> c.type, name |-> c.name, lastMessage |-> NoMessage,
   otherUser |-> NoProfile, ready |-> FALSE]

\* the membership query returns its rows in an order the query does not fix
loadChats_members(q) ==
  /\ listPc = "members"
  /\ authUser # NoUser
  /\ q \in Enumerations(MemberChats(authUser))
  /\ listOut' = [i \in 1..Len(q) |-> Pending(q[i])]
  /\ listPc' = "details"
  /\ UNCHANGED <<sessionVars, storeVars, newChatVars, sendVars, syncVars, headVars, groupVars,
                 listChats, listLoading>>

\* getUser() resolved without a user: if (!user) return; finally setLoading(false)
loadChats_noUser ==
  /\ listPc = "members"
  /\ authUser = NoUser
  /\ listLoading' = FALSE
  /\ listPc' = "done"
  /\ UNCHANGED <<sessionVars, storeVars, newChatVars, sendVars, syncVars, headVars, groupVars,
                 listChats, listOut>>

\* (C18 mutant) the last-message lookup without its chat_id filter
LastMessage_AnyChat(uid, c) ==
  LET rows == OrderBy(SelectSeq(messageLog, LAMBDA r : MessagesSelectPolicy(uid, r)), FALSE)
  IN IF rows = <<>> THEN NoMessage
     ELSE [content |-> Head(rows).content, created_at |-> Head(rows).created_at]

\* (C16 mutant) the last-message lookup in ascending order
LastMessage_Oldest(uid, c) ==
  LET rows == OrderBy(FilterSeq(messageLog, uid, c), TRUE)
  IN IF rows = <<>> THEN NoMessage
     ELSE [content |-> Head(rows).content, created_at |-> Head(rows).created_at]

\* messages.select('content, created_at').eq('chat_id', c)
\*   .order('created_at', { ascending: false }).limit(1).single(): null
\* without a row
LastMessage(uid, c) ==
  LET rows == OrderBy(FilterSeq(messageLog, uid, c), FALSE)
  IN IF rows = <<>> THEN NoMessage
     ELSE [content |-> Head(rows).content, created_at |-> Head(rows).created_at]

\* the map callback of the i-th membership row: the last-message lookup and,
\* for a dm, the otherMember lookup; neither lookup throws
loadChats_detail(i) ==
  /\ listPc = "details"
  /\ i \in 1..Len(listOut)
  /\ ~listOut[i].ready
  /\ LET c == listOut[i] IN
     listOut' = [listOut EXCEPT ![i] =
       [c EXCEPT !.lastMessage = LastMessage(authUser, c.id),
                 !.otherUser = IF c.type = "dm" THEN OtherUser(authUser, c.id)
                               ELSE NoProfile,
                 !.ready = TRUE]]
  /\ UNCHANGED <<sessionVars, storeVars, newChatVars, sendVars, syncVars, headVars, groupVars,
                 listChats, listLoading, listPc>>

\* (C24 mutant) a list that puts the conversations with a message first
loadChats_apply_MessagesFirst ==
  /\ listPc = "details"
  /\ \A i \in 1..Len(listOut) : listOut[i].ready
  /\ listChats' = SelectSeq(listOut, LAMBDA e : e.lastMessage # NoMessage)
                     \o SelectSeq(listOut, LAMBDA e : e.lastMessage = NoMessage)
  /\ listLoading' = FALSE
  /\ listPc' = "done"
  /\ UNCHANGED <<sessionVars, storeVars, newChatVars, sendVars, syncVars, headVars, groupVars,
                 listOut>>

\* Promise.all settled: setChats(chatsWithDetails); finally setLoading(false)
loadChats_apply ==
  /\ listPc = "details"
  /\ \A i \in 1..Len(listOut) : listOut[i].ready
  /\ listChats' = listOut
  /\ listLoading' = FALSE
  /\ listPc' = "done"
  /\ UNCHANGED <<sessionVars, storeVars, newChatVars, sendVars, syncVars, headVars, groupVars,
                 listOut>>

\* (C15 mutant) the stored name shown as it is
ChatList_getChatName_Raw(entry) == entry.name

\* ChatList.getChatName
ChatList_getChatName(entry) ==
  IF entry.type = "group"
  THEN (IF entry.name \in {NoName, ""} THEN "Unnamed Group" ELSE entry.name)
  ELSE (IF entry.otherUser.display_name = "" THEN "Unknown User"
        ELSE entry.otherUser.display_name)

\* ------------------------------------------------------------ specification
\* a signed-in session that is restored
InitSession ==
  /\ authUser \in Users
  /\ authLoading = FALSE
  /\ route = "/"

\* the state of the components as their first render finds it
InitViews ==
  /\ creatingChat = FALSE
  /\ ncPc = "idle"
  /\ ncOther = NoUser
  /\ ncTodo = <<>>
  /\ ncNewChat = NoChat
  /\ ncNavigate = NoChat
  /\ ncToast = "none"
  /\ ncExisting = {}
  /\ newMessage = <<>>
  /\ sending = FALSE
  /\ csToast = "none"
  /\ sendPc = "idle"
  /\ sendReq = [chat_id |-> NoChat, content |-> <<>>]
  /\ sendCalls = 0
  /\ chatId = NoChat
  /\ mounted = FALSE
  /\ messages = <<>>
  /\ loads = {}
  /\ channel = NoChannel
  /\ feed = <<>>
  /\ handlers = {}
  /\ navCount = 0
  /\ openedAt = 0
  /\ chat = NoChatData
  /\ chatLoads = {}
  /\ loading = TRUE
  /\ selectedUsers = <<>>
  /\ groupName = ""
  /\ grpPc = "idle"
  /\ grpReq = [name |-> "", members |-> <<>>]
  /\ listChats = <<>>
  /\ listLoading = TRUE
  /\ listPc = "idle"
  /\ listOut = <<>>

InitClients == InitSession /\ InitViews

\* the empty store
Init ==
  /\ InitClients
  /\ chats = {}
  /\ chat_members = {}
  /\ joinedBy = {}
  /\ messageLog = <<>>
  /\ sentBy = <<>>
  /\ storeReply = NoReply

\* the Conversation Registry: the store's chats and chat_members and createDM
Next ==
  \/ \E u \in Users, cb \in Users : StoreInsertChat(u, "dm", cb, NoName)
  \/ \E u \in Users, cb \in Users, n \in GroupNames : StoreInsertChat(u, "group", cb, n)
  \/ \E u \in Users, c \in ChatIds, p \in Users : StoreInsertMember(u, c, p)
  \/ \E o \in Users : createDM_begin(o)
  \/ createDM_existing
  \/ createDM_scan
  \/ createDM_insertChat

Spec == Init /\ [][Next]_vars

\* A store the Registry reaches (Spec reaches SeedReached): conversation 1, Direct,
\* created by u1 with members u1 and u2; conversation 2, Group, created by
\* u2 with members u1, u2 and u3.
SeedChatsNamed(n) ==
  {[id |-> 1, type |-> "dm", name |-> NoName, created_by |-> "u1"],
   [id |-> 2, type |-> "group", name |-> n, created_by |-> "u2"]}

SeedChats == SeedChatsNamed(NoName)

SeedMembers ==
  {[chat_id |-> 1, user_id |-> "u1"], [chat_id |-> 1, user_id |-> "u2"],
   [chat_id |-> 2, user_id |-> "u1"], [chat_id |-> 2, user_id |-> "u2"],
   [chat_id |-> 2, user_id |-> "u3"]}

SeedJoinedBy ==
  {[chat_id |-> 1, user_id |-> "u1", by |-> "u1"],
   [chat_id |-> 1, user_id |-> "u2", by |-> "u1"],
   [chat_id |-> 2, user_id |-> "u1", by |-> "u1"],
   [chat_id |-> 2, user_id |-> "u2", by |-> "u2"],
   [chat_id |-> 2, user_id |-> "u3", by |-> "u2"]}

SeedReached ==
  chats = SeedChats /\ chat_members = SeedMembers /\ joinedBy = SeedJoinedBy

InitSeeded ==
  /\ InitClients
  /\ chats = SeedChats
  /\ chat_members = SeedMembers
  /\ joinedBy = SeedJoinedBy
  /\ messageLog = <<>>
  /\ sentBy = <<>>
  /\ storeReply = NoReply

\* the Message Log: memberships, message inserts, sendMessage and loadMessages
NextLog ==
  \/ \E u \in Users, c \in ChatIds, p \in Users : StoreInsertMember(u, c, p)
  \/ \E u \in Users, c \in ChatIds, s \in Users : StoreInsertMessage(u, c, s, <<" ">>, Now)
  \/ \E c \in ChatIds : mount(c)
  \/ \E d \in Drafts : setNewMessage(d)
  \/ sendMessage_submit
  \/ sendMessage_insert
  \/ sendMessage_finish
  \/ \E l \in loads : loadMessages_query(l)
  \/ \E l \in loads : loadMessages_apply(l, DOMAIN l.rows)

SpecLog == InitSeeded /\ [][NextLog]_vars

\* the Live Sync Engine: one ChatScreen and a member who writes to its
\* conversations
Writer == "u2"

NextView ==
  \/ \E c \in ChatIds : StoreInsertMessage(Writer, c, Writer, <<"a">>, Now)
  \/ \E c \in ChatIds : mount(c)
  \/ subscribed
  \/ \E l \in loads : loadMessages_query(l)
  \/ \E l \in loads : loadMessages_apply(l, DOMAIN l.rows)
  \/ handler_start
  \/ \E h \in handlers : handler_finish(h, TRUE)
  \/ \E c \in ChatIds : changeChat(c)
  \/ unmount

SpecView == InitSeeded /\ [][NextView]_vars

\* the history and its enrichment: a member who writes with any created_at
\* the insert interface takes, and sender lookups that may not resolve
Times == 1..MaxMsgs

NextHistory ==
  \/ \E c \in ChatIds, t \in Times : StoreInsertMessage(Writer, c, Writer, <<"a">>, t)
  \/ \E c \in ChatIds : mount(c)
  \/ subscribed
  \/ \E l \in loads : loadMessages_query(l)
  \/ \E l \in loads, found \in SUBSET (1..MaxMsgs) : loadMessages_apply(l, found)
  \/ handler_start
  \/ \E h \in handlers, resolved \in BOOLEAN : handler_finish(h, resolved)

SpecHistory == InitSeeded /\ [][NextHistory]_vars

\* the List Aggregator and the chat header: the seeded store with the group
\* named in any of the ways the insert interface takes (no name, the empty
\* text, a text), a member who writes, one ChatScreen and one ChatList
InitList ==
  /\ InitClients
  /\ \E n \in GroupNames : chats = SeedChatsNamed(n)
  /\ chat_members = SeedMembers
  /\ joinedBy = SeedJoinedBy
  /\ messageLog = <<>>
  /\ sentBy = <<>>
  /\ storeReply = NoReply

NextList ==
  \/ \E c \in ChatIds : StoreInsertMessage(Writer, c, Writer, <<"b">>, Now)
  \/ \E c \in ChatIds : mount(c)
  \/ \E l \in chatLoads : loadChat_finish(l)
  \/ loadChats_begin
  \/ \E q \in Enumerations(MemberChats(authUser)) : loadChats_members(q)
  \/ \E i \in 1..MaxChats : loadChats_detail(i)
  \/ loadChats_apply

SpecList == InitList /\ [][NextList]_vars

\* a sent message in the history and in the list: one ChatScreen with its
\* sendMessage and loadMessages, a member who writes, and one ChatList
NextSent ==
  \/ \E c \in ChatIds : StoreInsertMessage(Writer, c, Writer, <<"b">>, Now)
  \/ \E c \in ChatIds : mount(c)
  \/ \E l \in loads : loadMessages_query(l)
  \/ \E l \in loads : loadMessages_apply(l, DOMAIN l.rows)
  \/ \E d \in Drafts : setNewMessage(d)
  \/ sendMessage_submit
  \/ sendMessage_insert
  \/ sendMessage_finish
  \/ loadChats_begin
  \/ \E q \in Enumerations(MemberChats(authUser)) : loadChats_members(q)
  \/ \E i \in 1..MaxChats : loadChats_detail(i)
  \/ loadChats_apply

SpecSent == InitSeeded /\ [][NextSent]_vars

\* the group tab of NewChat over the empty store
GroupNameInputs == {"", "Team"}

NextGroup ==
  \/ \E u \in Users : toggleUserSelection(u)
  \/ \E n \in GroupNameInputs : setGroupName(n)
  \/ createGroup
  \/ createGroup_insertChat

SpecGroup == Init /\ [][NextGroup]_vars

\* the Message Log under every command a client may send: inserts, updates
\* and deletes by every principal, and the sendMessage of one ChatScreen
NextAppend ==
  \/ \E u \in Users, c \in ChatIds : StoreInsertMessage(u, c, u, <<"b">>, Now)
  \/ \E u \in Users, k \in 1..MaxMsgs : StoreUpdateMessage(u, k, <<"c">>)
  \/ \E u \in Users, k \in 1..MaxMsgs : StoreDeleteMessage(u, k)
  \/ \E c \in ChatIds : mount(c)
  \/ \E d \in Drafts : setNewMessage(d)
  \/ sendMessage_submit
  \/ sendMessage_insert
  \/ sendMessage_finish

SpecAppend == InitSeeded /\ [][NextAppend]_vars

\* the session: Index over a store with one Direct conversation of u1 and u2,
\* a session that is still loading and resolves to a user or to none, the
\* sign-out of the list view, and the operations of the three views
InitAnon ==
  /\ authUser \in Users \cup {NoUser}
  /\ authLoading = TRUE
  /\ route = "/"
  /\ InitViews
  /\ chats = {c \in SeedChats : c.type = "dm"}
  /\ chat_members = {m \in SeedMembers : m.chat_id = 1}
  /\ joinedBy = {j \in SeedJoinedBy : j.chat_id = 1}
  /\ messageLog = <<>>
  /\ sentBy = <<>>
  /\ storeReply = NoReply

\* the other user the NewChat operations of this specification pick
Picked == "u2"

NextAnon ==
  \/ sessionLoaded
  \/ handleSignOut
  \/ mount(1)
  \/ unmount
  \/ \E l \in chatLoads : loadChat_finish(l)
  \/ \E l \in loads : loadMessages_query(l)
  \/ \E l \in loads : loadMessages_apply(l, DOMAIN l.rows)
  \/ setNewMessage(<<" ", "a", " ">>)
  \/ sendMessage_submit /\ Len(messageLog) < MaxMsgs
  \/ sendMessage_insert
  \/ sendMessage_finish
  \/ createDM_begin(Picked)
  \/ createDM_existing
  \/ createDM_scan
  \/ createDM_insertChat
  \/ toggleUserSelection(Picked)
  \/ createGroup
  \/ createGroup_insertChat
  \/ loadChats_begin
  \/ \E q \in Enumerations(MemberChats(authUser)) : loadChats_members(q)
  \/ loadChats_noUser
  \/ \E i \in 1..MaxChats : loadChats_detail(i)
  \/ loadChats_apply

SpecAnon == InitAnon /\ [][NextAnon]_vars

\* the busy flags: the session and the four operations that set a flag, every
\* store call and every getUser() of a started operation returning (weak
\* fairness of the steps that follow an await; no fairness of what the user
\* does)
NextBusy ==
  \/ sessionLoaded
  \/ handleSignOut
  \/ mount(1)
  \/ unmount
  \/ setNewMessage(<<" ", "a", " ">>)
  \/ sendMessage_submit /\ Len(messageLog) < MaxMsgs
  \/ sendMessage_insert
  \/ sendMessage_finish
  \/ createDM_begin(Picked)
  \/ createDM_existing
  \/ createDM_scan
  \/ createDM_insertChat
  \/ toggleUserSelection(Picked)
  \/ createGroup
  \/ createGroup_insertChat
  \/ loadChats_begin
  \/ \E q \in Enumerations(MemberChats(authUser)) : loadChats_members(q)
  \/ loadChats_noUser
  \/ \E i \in 1..MaxChats : loadChats_detail(i)
  \/ loadChats_apply

\* the steps that follow an await of each operation; of one operation at
\* most one is enabled at a time
sendMessage_returns == sendMessage_insert \/ sendMessage_finish
createDM_returns == createDM_existing \/ createDM_scan \/ createDM_insertChat
loadChats_returns ==
  \/ \E q \in Enumerations(MemberChats(authUser)) : loadChats_members(q)
  \/ loadChats_noUser
  \/ \E i \in 1..MaxChats : loadChats_detail(i)
  \/ loadChats_apply

CallsReturn ==
  /\ WF_vars(sendMessage_returns)
  /\ WF_vars(createDM_returns)
  /\ WF_vars(createGroup_insertChat)
  /\ WF_vars(loadChats_returns)

SpecBusy == InitAnon /\ [][NextBusy]_vars /\ CallsReturn

\* ------------------------------------------------------------------ claims

\* C1: a createDM(A, B) that starts when a Direct conversation with member set
\* exactly {A, B} exists finds it and navigates to it; it never goes on to
\* create a conversation.
C1_SecondCallFindsExisting ==
  (ncPc \in {"create", "members", "done"} /\ ncExisting # {})
    => (ncPc = "done" /\ ncNavigate \in ncExisting)

\* C2: the in-memory message list of ChatScreen never holds two entries with
\* the same message id.
C2_NoDuplicateIds ==
  \A i, j \in 1..Len(messages) : i # j => messages[i].id # messages[j].id

\* the view is at rest: history applied, channel joined, every delivered
\* event handled
ViewAtRest ==
  /\ mounted
  /\ loads = {}
  /\ channel.joined
  /\ feed = <<>>
  /\ handlers = {}

\* C3: once the view of a conversation of which the viewer is a member is at
\* rest, every message committed to that conversation since the view opened
\* is in the in-memory list.
C3_NothingLost ==
  (ViewAtRest /\ [chat_id |-> chatId, user_id |-> authUser] \in chat_members)
    => \A k \in (openedAt + 1)..Len(messageLog) :
         messageLog[k].chat_id = chatId =>
           \E i \in 1..Len(messages) : messages[i].id = messageLog[k].id

\* C4: a history query returns rows only of the conversation asked for, and
\* only if the caller held a membership row of it when the query ran; every
\* other caller receives the empty result.
C4_HistoryOnlyForMembers ==
  \A l \in loads :
    l.stage = "enrich" =>
      /\ (l.rows # <<>> => l.member)
      /\ \A i \in 1..Len(l.rows) : l.rows[i].chat_id = l.chat

\* C4 witness: a principal without a membership row asked for the history of a
\* conversation that holds messages and received nothing.
C4_Witness ==
  \E l \in loads :
    /\ l.stage = "enrich"
    /\ ~l.member
    /\ l.rows = <<>>
    /\ \E k \in 1..Len(messageLog) : messageLog[k].chat_id = l.chat

\* C5: every accepted chat_members insert was issued by the creator of the
\* conversation it names.
C5_OnlyCreatorAddsMembers ==
  \A j \in joinedBy : \E c \in chats : c.id = j.chat_id /\ c.created_by = j.by

\* every stored message was inserted by its sender_id, who held a membership
\* row of the conversation when the insert ran
C6_StoredBySenderMember ==
  \A k \in 1..Len(messageLog) :
    sentBy[k].by = messageLog[k].sender_id /\ sentBy[k].member

\* the insert of a sendMessage whose caller holds no membership row of the
\* conversation stores nothing and fails
C6_RejectedSendStoresNothing ==
  (sendPc = "insert" /\ sendPc' # "insert"
     /\ [chat_id |-> sendReq.chat_id, user_id |-> authUser] \notin chat_members)
    => (messageLog' = messageLog /\ sendPc' = "error")

\* a failed sendMessage ends in the error toast with sending reset
C6_ErrorIsReported ==
  (sendPc = "error" /\ sendPc' # "error") => (csToast' = "error" /\ ~sending')

\* C6: a message is stored only if its sender_id is the caller and the caller
\* held a membership row of the conversation when the insert ran; otherwise
\* nothing is stored and sendMessage reports the error to its caller.
C6_AppendNeedsSenderMembership ==
  /\ []C6_StoredBySenderMember
  /\ [][C6_RejectedSendStoresNothing /\ C6_ErrorIsReported]_vars

\* C6 witness: a member's message is stored and a sendMessage of a caller
\* without a membership row of the viewed conversation ended in the error toast.
C6_Witness ==
  /\ Len(messageLog) > 0
  /\ sendPc = "idle"
  /\ csToast = "error"
  /\ [chat_id |-> sendReq.chat_id, user_id |-> authUser] \notin chat_members

\* C7: every conversation of type 'dm' has exactly two members.
C7_DirectHasTwoMembers ==
  \A c \in chats : c.type = "dm" => Cardinality(MembersOf(c.id)) = 2

\* C8: a createDM(self, other) that starts when no Direct conversation with
\* member set exactly {self, other} exists ends without error at a new
\* conversation of type 'dm' created by self whose members are self and other.
C8_CreatesDirect ==
  (ncPc = "done" /\ ncExisting = {})
    => /\ ncToast = "none"
       /\ \E c \in chats :
            /\ c.id = ncNavigate
            /\ c.type = "dm"
            /\ c.created_by = authUser
            /\ MembersOf(c.id) = {authUser, ncOther}

\* the steps of createDM after the conversation insert are never reached
MembersStepUnreachable == ncPc # "members"

\* C9: the Message Log never holds a message whose content is empty after
\* trimming.
C9_NoBlankStored ==
  \A k \in 1..Len(messageLog) : Trim(messageLog[k].content) # <<>>

\* C10: a live-event handler of a released subscription (the channel was
\* removed by the cleanup since the handler received its event) never changes
\* the in-memory message list.
C10_NoStaleHandlerWrite ==
  [][\A h \in handlers :
       ((channel.chat = NoChat \/ h.sub # channel.sub) /\ h \notin handlers')
         => messages' = messages]_vars

\* C11: live events of one subscription enter the list in the order in which
\* the feed delivered them (the feed of one channel delivers in insert order,
\* so the event with the smaller message id arrived first): a handler never
\* appends its message while an event that arrived before it on the same
\* channel is still waiting for its sender lookup.
C11_ArrivalOrder ==
  [][\A h \in handlers :
       (h \notin handlers' /\ messages' # messages)
         => ~\E g \in handlers : g.sub = h.sub /\ g.msg.id < h.msg.id]_vars

NonDecreasing(q) == \A i, j \in 1..Len(q) : i < j => q[i].created_at <= q[j].created_at

\* C12: the sequence loadMessages places in the list is non-decreasing in
\* created_at, and it holds the rows of the query, each once and in the
\* query's order: the parallel sender lookups change neither order nor number.
C12_HistoryOrdered ==
  [][\A l \in loads :
       (l.stage = "enrich" /\ l \notin loads' /\ mounted)
         => /\ NonDecreasing(messages')
            /\ Len(messages') = Len(l.rows)
            /\ \A i \in 1..Len(l.rows) : messages'[i].id = l.rows[i].id]_vars

\* C12 witness: the list holds a history of two messages whose order in the
\* table is not their created_at order.
C12_Witness ==
  /\ Len(messages) = 2
  /\ loads = {} /\ handlers = {} /\ feed = <<>> /\ ~channel.joined
  /\ messages[1].id > messages[2].id
  /\ messages[1].created_at < messages[2].created_at

\* C17: a message whose sender lookup does not resolve is still placed in the
\* list, with its raw sender_id and a null sender, by the history load and by
\* the live handler alike; the load is completed and no row of the query is
\* left out.
C17_UnresolvedSenderKept ==
  [][/\ \A l \in loads :
          (l.stage = "enrich" /\ l \notin loads' /\ mounted)
            => \A i \in 1..Len(l.rows) :
                 \E k \in 1..Len(messages') :
                   /\ messages'[k].id = l.rows[i].id
                   /\ messages'[k].sender_id = l.rows[i].sender_id
                   /\ messages'[k].sender \in {NoProfile, Profile(l.rows[i].sender_id)}
     /\ \A h \in handlers :
          (h \notin handlers' /\ mounted)
            => /\ Len(messages') = Len(messages) + 1
               /\ SubSeq(messages', 1, Len(messages)) = messages
               /\ messages'[Len(messages')].id = h.msg.id
               /\ messages'[Len(messages')].sender_id = h.msg.sender_id
               /\ messages'[Len(messages')].sender \in {NoProfile, Profile(h.msg.sender_id)}]_vars

\* C17 witness: the list holds a history of two messages, the first with a
\* sender that did not resolve and the second with its sender's profile, and
\* after them a live entry whose sender did not resolve.
C17_Witness ==
  /\ Len(messages) = 3
  /\ loads = {} /\ handlers = {} /\ feed = <<>>
  /\ messages[1].sender = NoProfile
  /\ messages[1].sender_id = Writer
  /\ messages[2].sender = Profile(Writer)
  /\ messages[3].sender = NoProfile
  /\ messages[3].sender_id = Writer

\* the conversations loadChats lists for a principal
ListedIds(uid) == {c.id : c \in MemberChats(uid)}

\* C13: a createDM(U1, U2) that starts when no Direct conversation of the two
\* exists ends at a Direct conversation that the list of U1 and the list of
\* U2 hold, whose messages both may read, and that the list of no third
\* principal holds.
C13_CreatedDirectIsShared ==
  (ncPc = "done" /\ ncExisting = {})
    => \E c \in chats :
         /\ c.id = ncNavigate
         /\ c.type = "dm"
         /\ \A u \in Users : (c.id \in ListedIds(u)) <=> (u \in {authUser, ncOther})
         /\ \A u \in {authUser, ncOther} : MessagesSelectPolicy(u, [chat_id |-> c.id])

\* C14: in the list and in the chat header, a Direct conversation of the
\* viewer and a counterpart W, whose profile exists, is named by W's
\* display_name.
C14_DirectNamedAfterCounterpart ==
  /\ \A i \in 1..Len(listChats) : \A w \in Users \ {authUser} :
       (listChats[i].type = "dm" /\ MembersOf(listChats[i].id) = {authUser, w})
         => ChatList_getChatName(listChats[i]) = DisplayName(w)
  /\ \A w \in Users \ {authUser} :
       (chat.type = "dm" /\ MembersOf(chat.id) = {authUser, w})
         => ChatScreen_getChatName = DisplayName(w)

\* the name every viewer is shown for a stored group
GroupNameShown(row) == IF row.name \in {NoName, ""} THEN "Unnamed Group" ELSE row.name

\* C15: in the list and in the chat header, a Group stored with a non-empty
\* name is shown under that name to every member viewer, and a Group without
\* a name or with the empty name under one placeholder, the same for every
\* member viewer.
C15_GroupName ==
  /\ \A i \in 1..Len(listChats) : \A row \in chats :
       (row.type = "group" /\ row.id = listChats[i].id)
         => ChatList_getChatName(listChats[i]) = GroupNameShown(row)
  /\ \A row \in chats :
       (row.type = "group" /\ row.id = chat.id)
         => ChatScreen_getChatName = GroupNameShown(row)

\* C15 witness: u3, a member who did not create the group, has it in the list
\* and in the header under its stored name.
C15_Witness ==
  /\ authUser = "u3"
  /\ \E i \in 1..Len(listChats) :
       listChats[i].type = "group" /\ ChatList_getChatName(listChats[i]) = "Team"
  /\ chat.type = "group"
  /\ ChatScreen_getChatName = "Team"

\* the conversations of which the caller holds a membership row
MembershipsOf(uid) == {m.chat_id : m \in {x \in chat_members : x.user_id = uid}}

\* the list loadChats sets holds every conversation of the viewer once
C18_ListComplete ==
  listPc = "done"
    => /\ {listChats[i].id : i \in 1..Len(listChats)} = MembershipsOf(authUser)
       /\ Len(listChats) = Cardinality(MembershipsOf(authUser))

\* the lookups of one conversation leave lastMessage absent when it has no
\* message and otherUser absent when the counterpart's row is not resolved,
\* and loadChats goes on
C18_AbsentDetails ==
  \A i \in 1..Len(listOut) :
    (listPc = "details" /\ ~listOut[i].ready /\ listOut' # listOut /\ listOut'[i].ready)
      => /\ (\A k \in 1..Len(messageLog) : messageLog[k].chat_id # listOut[i].id)
              => listOut'[i].lastMessage = NoMessage
         /\ (listOut[i].type = "dm" /\ OtherMembers(authUser, listOut[i].id) = {})
              => listOut'[i].otherUser = NoProfile
         /\ listPc' = "details"

\* C18: a conversation without messages is listed with lastMessage absent, a
\* Direct conversation whose counterpart is not resolved with otherUser
\* absent, and in both cases the list holds that conversation and every
\* other conversation of the viewer.
C18_DetailsOptional ==
  /\ []C18_ListComplete
  /\ [][C18_AbsentDetails]_vars

\* C18 witness: the list holds a Direct conversation without a message and
\* without a resolved counterpart, next to a conversation with a last message.
C18_Witness ==
  /\ listPc = "done"
  /\ \E i, j \in 1..Len(listChats) :
       /\ listChats[i].type = "dm"
       /\ listChats[i].lastMessage = NoMessage
       /\ listChats[i].otherUser = NoProfile
       /\ listChats[j].lastMessage # NoMessage

\* the message of conversation c with the greatest created_at
Latest(log, c) ==
  LET S == {k \in 1..Len(log) : log[k].chat_id = c}
  IN log[CHOOSE k \in S : \A j \in S : log[j].created_at <= log[k].created_at]

HasMessage(c) == \E k \in 1..Len(messageLog) : messageLog[k].chat_id = c

\* an accepted insert of sendMessage stores the trimmed draft as the latest
\* message of the viewed conversation, with the caller as sender
C16_SentIsLatest ==
  (sendPc = "insert" /\ sendPc' = "ok")
    => /\ Len(messageLog') = Len(messageLog) + 1
       /\ Latest(messageLog', chatId) = messageLog'[Len(messageLog')]
       /\ Latest(messageLog', chatId).content = Trim(newMessage)
       /\ Latest(messageLog', chatId).sender_id = authUser

\* a member's history query ends with the latest message of the conversation
C16_HistoryEndsWithLatest ==
  \A l \in loads :
    (l.stage = "query" /\ l \notin loads' /\ HasMessage(l.chat)
       /\ [chat_id |-> l.chat, user_id |-> authUser] \in chat_members)
      => \E r \in loads' \ loads :
           /\ r.stage = "enrich"
           /\ r.rows # <<>>
           /\ r.rows[Len(r.rows)] = Latest(messageLog, l.chat)

\* the list entry of a conversation takes the content of its latest message
C16_ListShowsLatest ==
  \A i \in 1..Len(listOut) :
    (listPc = "details" /\ ~listOut[i].ready /\ listOut' # listOut /\ listOut'[i].ready
       /\ HasMessage(listOut[i].id))
      => listOut'[i].lastMessage.content = Latest(messageLog, listOut[i].id).content

\* C16: the message a member sends is stored with the trimmed draft as content
\* and the member as sender, as the latest message of the conversation; a
\* history of the conversation ends with its latest message, and the list
\* entry of the conversation shows the content of its latest message.
C16_SentMessageShown ==
  [][C16_SentIsLatest /\ C16_HistoryEndsWithLatest /\ C16_ListShowsLatest]_vars

\* C16 witness: after another member's message, the viewer's sendMessage of
\* " a " is done; the history ends with the viewer's "a" and the list entry
\* of the conversation shows "a".
C16_Witness ==
  /\ sendPc = "idle" /\ newMessage = <<>> /\ ~sending
  /\ Len(messageLog) = 2
  /\ messageLog[1].chat_id = chatId /\ messageLog[1].sender_id = Writer
  /\ Len(messages) = 2
  /\ messages[2].content = <<"a">>
  /\ messages[2].sender_id = authUser
  /\ authUser # Writer
  /\ listPc = "done"
  /\ \E i \in 1..Len(listChats) :
       listChats[i].id = chatId /\ listChats[i].lastMessage.content = <<"a">>

\* a createGroup call that passed the guard took a non-empty selection
C19_StartedOnlyWithSelection ==
  grpPc \in {"create", "members"} => grpReq.members # <<>>

\* with no user selected and no createGroup call in flight, no step of the
\* group tab writes to the store, changes creatingChat or starts a call
C19_NothingStarts ==
  (selectedUsers = <<>> /\ grpPc \in {"idle", "done"})
    => /\ grpPc' = grpPc
       /\ creatingChat' = creatingChat
       /\ chats' = chats
       /\ chat_members' = chat_members

\* the toast of the guard comes only with an empty selection and with
\* nothing else changed
C19_GuardToast ==
  (ncToast' = "select" /\ ncToast # "select")
    => /\ selectedUsers = <<>>
       /\ UNCHANGED <<chats, chat_members, creatingChat, grpPc, grpReq>>

\* C19: createGroup with an empty selection is rejected before any write: it
\* reports the error, inserts neither a conversation nor a membership row and
\* leaves creatingChat as it is.
C19_EmptySelectionRejected ==
  /\ []C19_StartedOnlyWithSelection
  /\ [][C19_NothingStarts /\ C19_GuardToast]_vars

\* C19 witness: a createGroup call was rejected for its empty selection while
\* an earlier call, made with a selection that was cleared since, is still
\* in flight: creatingChat is still set and the store is empty.
C19_Witness ==
  /\ ncToast = "select"
  /\ selectedUsers = <<>>
  /\ grpPc = "create"
  /\ creatingChat
  /\ chats = {} /\ chat_members = {}

\* C20: a createGroup(self, members) with a non-empty selection ends without
\* error at one new conversation of type 'group' created by self whose
\* membership rows are those of exactly {self} and the selected users.
C20_GroupCreated ==
  grpPc = "done"
    => /\ ncToast = "none"
       /\ Cardinality(chats) = 1
       /\ \E c \in chats :
            /\ c.id = ncNavigate
            /\ c.type = "group"
            /\ c.created_by = authUser
            /\ MembersOf(c.id) = {authUser} \cup SeqToSet(grpReq.members)

\* the steps of createGroup after the conversation insert are never reached
GroupMembersStepUnreachable == grpPc # "members"

\* the selection never holds a user twice, and never the caller
SelectionHasNoDuplicate ==
  /\ \A i, j \in 1..Len(selectedUsers) : i # j => selectedUsers[i] # selectedUsers[j]
  /\ \A i \in 1..Len(selectedUsers) : selectedUsers[i] # authUser

\* C22: the Message Log is append-only: every step leaves each stored row as
\* it is and at its place (content, sender_id, chat_id, created_at, id), so
\* the messages of a conversation only grow, whatever insert, update or
\* delete a client sends.
C22_AppendOnly ==
  [][/\ Len(messageLog') >= Len(messageLog)
     /\ SubSeq(messageLog', 1, Len(messageLog)) = messageLog]_vars

\* C22 witness: the sender of a stored message asked the store to delete it,
\* the store changed no row, and the log holds two messages, one of them
\* stored by sendMessage.
C22_Witness ==
  /\ storeReply.cmd = "delete"
  /\ storeReply.rows = 0
  /\ Len(messageLog) = 2
  /\ \E k \in 1..Len(messageLog) :
       messageLog[k].id = storeReply.id /\ messageLog[k].sender_id = storeReply.by
  /\ \E k \in 1..Len(messageLog) : messageLog[k].content = <<"a">>

\* C23: when the session has finished loading and there is no user, Index
\* has redirected to the sign-in route and shows none of the chat views (no
\* ChatScreen is mounted); and no step taken while there is no user, by
\* loadChats, loadChat, sendMessage, createDM or createGroup, adds a row to
\* chats, chat_members or the Message Log.
C23_NoPrincipal ==
  /\ [](~authLoading /\ authUser = NoUser =>
          /\ route = "/auth"
          /\ IndexView(authUser, authLoading) = "none"
          /\ ~mounted)
  /\ [][authUser = NoUser => UNCHANGED <<chats, chat_members, messageLog>>]_vars

\* signed out with every one of the five operations caught in flight: each
\* found no user and returned, without a toast, a navigation or a row
C23_Witness ==
  /\ authUser = NoUser /\ ~authLoading /\ route = "/auth"
  /\ sendPc = "nouser" /\ csToast = "none"
  /\ chatLoads = {} /\ chat = NoChatData
  /\ ncPc = "done" /\ grpPc = "done" /\ ncToast = "none" /\ ncNavigate = NoChat
  /\ ~creatingChat
  /\ listPc = "done" /\ ~listLoading /\ listChats = <<>>
  /\ messageLog = <<>> /\ Cardinality(chats) = 1

\* the conversation ids of a list, position by position
IdsOf(l) == [i \in 1..Len(l) |-> l[i].id]

\* the membership query gives one pending entry for each membership row of
\* the viewer; a lookup that completes, whichever and whatever it finds,
\* keeps every entry at its position; setChats takes the entries as they stand
C24_Steps ==
  /\ (listPc = "members" /\ listPc' = "details")
       => /\ Len(listOut') = Cardinality(MembershipsOf(authUser))
          /\ {listOut'[i].id : i \in 1..Len(listOut')} = MembershipsOf(authUser)
  /\ (listPc = "details" /\ listPc' = "details") => IdsOf(listOut') = IdsOf(listOut)
  /\ (listPc = "details" /\ listPc' = "done") => IdsOf(listChats') = IdsOf(listOut)

\* C24: the list loadChats sets has exactly one entry for each membership
\* row of the viewer, in the order in which the membership query returned
\* the rows, whatever the order in which the lookups complete and whichever
\* conversation has the latest message.
C24_EnumerationOrder ==
  /\ [][C24_Steps]_vars
  /\ [](listPc = "done" => IdsOf(listChats) = IdsOf(listOut))

\* C24 witness: the list is set with the conversation that has no message
\* before the one that has a message
C24_Witness ==
  /\ listPc = "done" /\ Len(listChats) = 2
  /\ listChats[1].lastMessage = NoMessage
  /\ listChats[2].lastMessage # NoMessage

\* C25: every message of the in-memory list of a mounted ChatScreen belongs
\* to the conversation of its current chatId, also after chatId changed.
\* Stated for the settled view only (the channel joined, no history load and
\* no live-event handler outstanding), which the claim implies.
C25_ListOfCurrentChat ==
  (mounted /\ channel.joined /\ loads = {} /\ handlers = {})
    => \A i \in 1..Len(messages) : messages[i].chat_id = chatId

\* C27: a view has at most one sendMessage call, and so at most one message
\* insert, in flight; sending is true exactly while that call is in flight;
\* and no step taken while sending is true starts another call or replaces
\* the request of the call in flight.
C27_OneInsertInFlight ==
  /\ [](sendCalls <= 1 /\ (sending <=> sendCalls = 1))
  /\ [][sending => (sendCalls' <= sendCalls /\ sendReq' = sendReq)]_vars

\* C27 witness: the insert of the call in flight has been answered, sending
\* is still true and the draft is still one that a submit would send
C27_Witness ==
  /\ mounted /\ sending /\ sendCalls = 1
  /\ sendPc = "ok" /\ Trim(newMessage) # <<>>
  /\ \E k \in 1..Len(messageLog) : messageLog[k].content = sendReq.content

\* a step of a sendMessage call: its submit, its insert or its end
SendStep == sendPc' # sendPc

\* C28: sendMessage empties the draft only at the end of a call whose insert
\* succeeded; a call whose insert failed or that found no user ends with the
\* draft as it was; and no step of sendMessage changes the in-memory message
\* list.
C28_DraftAndListFrame ==
  [][SendStep =>
       /\ newMessage' # newMessage => (sendPc = "ok" /\ newMessage' = <<>>)
       /\ sendPc = "ok" => newMessage' = <<>>
       /\ messages' = messages]_vars

\* C28 witness: a call that found no user has ended (no row, no toast) and
\* the draft it was to send is still in the input, beside a loaded history
C28_Witness ==
  /\ authUser = NoUser /\ sendPc = "idle" /\ ~sending
  /\ sendReq.content = <<"a">> /\ newMessage = <<" ", "a", " ">>
  /\ csToast = "none" /\ messageLog = <<>> /\ loads = {}

\* a call whose insert was refused has ended with its toast and its draft
C28_WitnessRefused ==
  /\ sendPc = "idle" /\ csToast = "error" /\ newMessage = <<" ", "a", " ">>
  /\ sendReq.content = <<"a">> /\ messageLog = <<>>

\* a call whose insert succeeded has ended with the draft emptied and the
\* list without the sent message
C28_WitnessSent ==
  /\ sendPc = "idle" /\ newMessage = <<>> /\ Len(messageLog) = 1 /\ messages = <<>>
  /\ loads = {} /\ mounted

\* no call of the operation is in flight
SendEnded == sendPc = "idle"
DirectEnded == ncPc \in {"idle", "done"}
GroupEnded == grpPc \in {"idle", "done"}
ListEnded == listPc = "done"

\* C26: with every store call returning, a started sendMessage, createDM,
\* createGroup and loadChats ends, and when it has ended its busy flag
\* (sending, creatingChat, loading) is false, whichever way it ended; so a
\* flag that is true becomes false.  ("Always eventually ended" says that
\* from every state in which a call is in flight a state is reached in
\* which it has ended.)
C26_BusyFlagsEnd ==
  /\ [](SendEnded => ~sending)
  /\ []((DirectEnded /\ GroupEnded) => ~creatingChat)
  /\ [](ListEnded => ~listLoading)
  /\ []<>SendEnded
  /\ []<>DirectEnded
  /\ []<>GroupEnded
  /\ []<>(listPc = "idle" \/ ListEnded)
  /\ []<>(~creatingChat)

\* C26 witness: a sendMessage, a createDM, a createGroup and a loadChats of a
\* signed-in user have ended, the two creations on their store error, and
\* the three flags are false
C26_Witness ==
  /\ authUser # NoUser
  /\ SendEnded /\ sendReq.content # <<>> /\ ~sending
  /\ ncPc = "done" /\ grpPc = "done" /\ ncToast = "error" /\ ~creatingChat
  /\ ListEnded /\ ~listLoading

====
